---- MODULE Spec2Model ----
(***************************************************************************)
(* Consultation lifecycle of the ecosus backend: the Consultation model    *)
(* (models/Consultation.js, kept as src/unnamed/part_004), its controller  *)
(* (src/controllers/consultationController.js), the consultation router    *)
(* (second module of src/routes/whyImage.js) and the request validation    *)
(* and mail helper (src/unnamed/part_001); and the accounts: the User      *)
(* model (src/unnamed/part_003), the user controller                       *)
(* (src/unnamed/part_005), the users router (src/routes/blog.js) and       *)
(* login, forgotPassword and resetPassword of                              *)
(* src/controllers/authController.js.                                      *)
(*                                                                         *)
(* Every handler is an async function: each `await` of a database or mail  *)
(* call is a point where other requests run.  A handler is therefore       *)
(* modelled as one action per stretch of code between two awaits, and the  *)
(* store is touched by exactly one action per database call.               *)
(***************************************************************************)
EXTENDS Integers, Sequences, FiniteSets, TLC

\* ------------------------------------------------------------------ bounds
MaxReqs == 3      \* requests served in one behaviour (also the clock's range)
MaxCons == 1      \* consultations ever created in one behaviour
MaxInFlight == 2  \* requests being served at the same time
MaxDocs == 3      \* consultations in a collection that is listed
MaxStamp == 2     \* distinct creation times in a collection that is listed
MaxFound == 2     \* consultations in a collection that is searched

ResetTokenLife == 3  \* the ten minutes of a reset token, on the clock

\* ------------------------------------------------------------- value sets
Admins == {"a1"}
Users == {"u1", "u2", "a1"}
Statuses == {"pending", "confirmed", "completed", "cancelled"}
\* what a client may send as a status: the enum and one value outside it
RequestedStatuses == Statuses \cup {"urgent"}
Reasons == {"", "client asked"}
ConsIds == 1..MaxCons
Slots == 1..MaxInFlight

VARIABLES
    db,      \* the consultations collection: id -> document
    nextId,  \* the next unused document id
    req,     \* the requests being served: slot -> request
    nreq,    \* requests received so far; read as the clock (Date.now)
    last,    \* the response sent most recently
    probe,   \* a direct call of a model method: its inputs and its output
    users    \* the users collection: id -> document

vars == <<db, nextId, req, nreq, last, probe, users>>

\* ------------------------------------------------------------- documents
\* free text (projectType, description, location, a search term) is a
\* sequence of characters
NoDoc ==
    [exists |-> FALSE, user |-> "none", status |-> "none",
     statusHistory |-> <<>>, isUrgent |-> FALSE, createdAt |-> 0,
     service |-> "none", projectType |-> <<>>, description |-> <<>>,
     location |-> <<>>]

\* schema defaults: status "pending", statusHistory [], isUrgent false; the
\* required fields get the values every body of Bodies carries for them
NewDoc(owner, now) ==
    [exists |-> TRUE, user |-> owner, status |-> "pending",
     statusHistory |-> <<>>, isUrgent |-> FALSE, createdAt |-> now,
     service |-> "residential", projectType |-> <<"l", "o", "f", "t">>,
     description |-> <<"n", "e", "w">>, location |-> <<"O", "s", "l", "o">>]

\* a request body: each field is <<>> (absent) or <<value>> (present)
EmptyBody == [status |-> <<>>, statusHistory |-> <<>>, user |-> <<>>, isUrgent |-> <<>>]

\* the bodies clients send: no field of interest, a status inside or outside
\* the enum, an empty status history, another owner
Bodies ==
    {EmptyBody}
    \cup {[EmptyBody EXCEPT !.status = <<s>>] : s \in {"pending", "completed", "urgent"}}
    \cup {[EmptyBody EXCEPT !.statusHistory = << <<>> >>]}
    \cup {[EmptyBody EXCEPT !.user = <<"u2">>]}

\* BodyValid with the enum validators switched off
BodyUnvalidated(body) == TRUE

\* the schema's validators that a body can fail: the status enums
BodyValid(body) ==
    /\ body.status # <<>> => body.status[1] \in Statuses
    /\ body.statusHistory # <<>> =>
           \A i \in 1..Len(body.statusHistory[1]) :
               body.statusHistory[1][i].status \in Statuses

\* the fields present in the body replace the document's
ApplyBody(doc, body) ==
    [doc EXCEPT
        !.status = IF body.status # <<>> THEN body.status[1] ELSE @,
        !.statusHistory = IF body.statusHistory # <<>> THEN body.statusHistory[1] ELSE @,
        !.user = IF body.user # <<>> THEN body.user[1] ELSE @,
        !.isUrgent = IF body.isUrgent # <<>> THEN body.isUrgent[1] ELSE @]

\* --------------------------------------------------------- user documents
\* the ids of user documents: the users above and a second administrator
UserIds == Users \cup {"a2"}

\* bcrypt.hash of a password and sha256 of a reset token: the stored value
\* is not the input, and equal stored values come from equal inputs
Hash(alg, input) == <<alg, input>>

\* blockExpiresAt and resetPasswordExpire hold a time, or 0 for null/undefined
NoUser ==
    [exists |-> FALSE, role |-> "none", password |-> <<>>, isBlocked |-> FALSE,
     blockExpiresAt |-> 0, blockReason |-> "", blockHistory |-> <<>>, v |-> 0,
     resetPasswordToken |-> <<>>, resetPasswordExpire |-> 0]

\* schema defaults: isBlocked false, blockExpiresAt null, blockHistory []
NewUser(role, password) ==
    [NoUser EXCEPT !.exists = TRUE, !.role = role,
                   !.password = Hash("bcrypt", password)]

\* the accounts the consultation handlers see: every user of Users, with the
\* role admin for those of Admins
SeededUsers ==
    [id \in UserIds |->
        IF id \in Users
        THEN NewUser(IF id \in Admins THEN "admin" ELSE "user", "secret1")
        ELSE NoUser]

\* ------------------------------------------------- requests and responses
\* a response: the handler that sent it and the user it answers, its HTTP
\* status, the parts of its error message, its statusChange field, what
\* became of the handler's mail, the ids of the documents in its data (in the
\* order sent), its total field and its statistics
NoRes ==
    [op |-> "none", actor |-> "none", code |-> 0, error |-> <<>>,
     statusChange |-> <<>>, mailed |-> "none", data |-> <<>>, total |-> 0,
     stats |-> <<>>]

Ok(code) == [NoRes EXCEPT !.code = code]

\* ErrorResponse(message, statusCode); a message is kept as its parts
Err(code, message) == [NoRes EXCEPT !.code = code, !.error = message]

\* req.query of GET /api/consultations: each parameter is <<>> (absent) or
\* <<value>>
NoQuery == [status |-> <<>>, service |-> <<>>, search |-> <<>>]

\* doc is the document findById returned, as the handler has changed it in
\* memory; dirty holds the paths the handler has modified since loading it;
\* query is the request's req.query, agg what its first database call
\* returned; a request of a user handler holds the user it is about in target
\* (and that user's document in doc), and its durationInHours, password and
\* reset token
IdleReq ==
    [op |-> "none", actor |-> "none", id |-> 0, status |-> "none",
     reason |-> "", body |-> EmptyBody, pc |-> "idle", doc |-> NoDoc,
     dirty |-> {}, oldStatus |-> "none", ret |-> <<>>, query |-> NoQuery,
     agg |-> <<>>, target |-> "none", duration |-> 0, password |-> "",
     token |-> 0]

NewReq(op, actor, id, status, reason, body) ==
    [IdleReq EXCEPT !.op = op, !.actor = actor, !.id = id, !.status = status,
                    !.reason = reason, !.body = body, !.pc = "loaded"]

\* a request is accepted on the lowest slot that serves none
Free(r) ==
    /\ nreq < MaxReqs
    /\ req[r].pc = "idle"
    /\ \A q \in Slots : q < r => req[q].pc # "idle"

\* the handler of the request in slot r answers: the request leaves its slot
Respond(r, response) ==
    /\ req' = [req EXCEPT ![r] = IdleReq]
    /\ last' = [response EXCEPT !.op = req[r].op, !.actor = req[r].actor]

Mailed(sent, response) ==
    [response EXCEPT !.mailed = IF sent THEN "sent" ELSE "failed"]

Init ==
    /\ db = [i \in ConsIds |-> NoDoc]
    /\ nextId = 1
    /\ req = [r \in Slots |-> IdleReq]
    /\ nreq = 0
    /\ last = NoRes
    /\ probe = [status |-> "none", newStatus |-> "none", out |-> "none"]
    /\ users = SeededUsers


\* ------------------------------------------------- the Consultation model
Range(seq) == {seq[i] : i \in 1..Len(seq)}

Last(seq) == seq[Len(seq)]

\* validTransitions with pending also allowed to jump to completed
validTransitionsSkipConfirm ==
    [pending |-> <<"confirmed", "completed", "cancelled">>,
     confirmed |-> <<"completed", "cancelled">>,
     completed |-> <<"cancelled">>,
     cancelled |-> <<>>]

validTransitions ==
    [pending |-> <<"confirmed", "cancelled">>,
     confirmed |-> <<"completed", "cancelled">>,
     completed |-> <<"cancelled">>,
     cancelled |-> <<>>]

\* property names every object literal inherits; looking one of them up in
\* validTransitions yields a value that is neither undefined nor an array
ObjectPrototypeKeys ==
    {"constructor", "toString", "valueOf", "hasOwnProperty", "__proto__"}

\* validTransitions[this.status]?.includes(newStatus) || false
\* "true" / "false" are the returned booleans, "TypeError" is the throw of
\* calling .includes on an inherited property (it is not a function)
canChangeStatus(status, newStatus) ==
    IF status \in DOMAIN validTransitions
    THEN IF newStatus \in Range(validTransitions[status]) THEN "true" ELSE "false"
    ELSE IF status \in ObjectPrototypeKeys THEN "TypeError" ELSE "false"

\* HistoryEntry with userId and reason passed in each other's place
HistoryEntrySwapped(newStatus, userId, reason, now) ==
    [status |-> newStatus, changedBy |-> reason, reason |-> userId, changedAt |-> now]

\* the entry updateStatus pushes
HistoryEntry(newStatus, userId, reason, now) ==
    [status |-> newStatus, changedBy |-> userId, reason |-> reason, changedAt |-> now]

\* the in-memory effect of updateStatus before it saves
SetStatusWithHistory(doc, newStatus, userId, reason, now) ==
    [doc EXCEPT !.status = newStatus,
                !.statusHistory = Append(@, HistoryEntry(newStatus, userId, reason, now))]

\* Save that writes the scalar paths and leaves the pushed element out
SaveScalarsOnly(stored, doc, dirty) ==
    [stored EXCEPT
        !.status = IF "status" \in dirty THEN doc.status ELSE @,
        !.isUrgent = IF "isUrgent" \in dirty THEN doc.isUrgent ELSE @]

\* document.save() of a loaded document: one update of the stored document
\* that $sets the modified scalar paths and $pushes the pushed array element
Save(stored, doc, dirty) ==
    [stored EXCEPT
        !.status = IF "status" \in dirty THEN doc.status ELSE @,
        !.isUrgent = IF "isUrgent" \in dirty THEN doc.isUrgent ELSE @,
        !.statusHistory = IF "statusHistory" \in dirty
                          THEN Append(@, Last(doc.statusHistory)) ELSE @]

\* ---------------------------------------------------------- the handlers
\* POST /api/consultations: the body is spread into the new document, the
\* owner is then set to the authenticated user
CreateConsultation(r, actor, body) ==
    /\ Free(r)
    /\ nextId <= MaxCons
    /\ nreq' = nreq + 1
    /\ UNCHANGED <<probe, users>>
    /\ IF BodyValid(body)
       THEN /\ db' = [db EXCEPT ![nextId] =
                        [ApplyBody(NewDoc(actor, nreq + 1), body) EXCEPT !.user = actor]]
            /\ nextId' = nextId + 1
            /\ req' = [req EXCEPT ![r] =
                        [NewReq("create", actor, nextId, "none", "", body)
                            EXCEPT !.pc = "mail", !.doc = db'[nextId]]]
            /\ last' = last
       ELSE /\ UNCHANGED <<db, nextId, req>>
            /\ last' = [Err(400, <<"Validation Error">>) EXCEPT !.op = "create", !.actor = actor]

\* CreateConsultationMail that lets a mail failure reach the error handler
CreateConsultationMailThrows(r, sent) ==
    /\ req[r].op = "create" /\ req[r].pc = "mail"
    /\ Respond(r, Mailed(sent, IF sent
                                THEN [Ok(201) EXCEPT !.data = <<req[r].id>>]
                                ELSE Err(500, <<"Failed to send email">>)))
    /\ UNCHANGED <<db, nextId, nreq, probe, users>>

\* the confirmation and admin mails of createConsultation: a failure is
\* caught and logged, the response is 201 with the created document either way
CreateConsultationMail(r, sent) ==
    /\ req[r].op = "create" /\ req[r].pc = "mail"
    /\ Respond(r, Mailed(sent, [Ok(201) EXCEPT !.data = <<req[r].id>>]))
    /\ UNCHANGED <<db, nextId, nreq, probe, users>>

\* the first stretch of a handler that starts with Consultation.findById
FindById(r, op, actor, id, status, reason, body) ==
    /\ Free(r)
    /\ nreq' = nreq + 1
    /\ req' = [req EXCEPT ![r] =
                 [NewReq(op, actor, id, status, reason, body) EXCEPT !.doc = db[id]]]
    /\ UNCHANGED <<db, nextId, last, probe, users>>

\* a request the router's middleware answers before the handler runs
Refuse(r, op, actor, id, status, reason, body, response) ==
    /\ Free(r)
    /\ nreq' = nreq + 1
    /\ last' = [response EXCEPT !.op = op, !.actor = actor]
    /\ UNCHANGED <<db, nextId, req, probe, users>>

\* PATCH /:id/status: authorize("admin"), consultationValidation.status,
\* then the handler's findById
UpdateConsultationStatus(r, actor, id, status, reason) ==
    IF actor \notin Admins
    THEN Refuse(r, "status", actor, id, status, reason, EmptyBody,
                Err(403, <<"Forbidden">>))
    ELSE IF status \notin Statuses
    THEN Refuse(r, "status", actor, id, status, reason, EmptyBody,
                Err(400, <<"Status must be one of: pending, completed, confirmed, cancelled">>))
    ELSE FindById(r, "status", actor, id, status, reason, EmptyBody)

\* consultation.updateStatus(status, req.user.id, reason) up to its save()
UpdateStatus(r) ==
    /\ req[r].op = "status" /\ req[r].pc = "loaded"
    /\ UNCHANGED <<db, nextId, nreq, probe, users>>
    /\ LET q == req[r]
           can == canChangeStatus(q.doc.status, q.status)
       IN  IF ~q.doc.exists
           THEN Respond(r, Err(404, <<"Consultation not found">>))
           ELSE IF can = "true"
           THEN /\ req' = [req EXCEPT
                    ![r].oldStatus = q.doc.status,
                    ![r].doc = SetStatusWithHistory(q.doc, q.status, q.actor, q.reason, nreq),
                    ![r].dirty = {"status", "statusHistory"},
                    ![r].pc = "save"]
                /\ last' = last
           ELSE IF can = "false"
           THEN Respond(r, Err(400, <<"Invalid status transition from ",
                                      q.doc.status, " to ", q.status>>))
           ELSE Respond(r, Err(400, <<"validTransitions[this.status]?.includes is not a function">>))

\* the save() inside updateStatus and its return value
UpdateStatusSave(r) ==
    /\ req[r].op = "status" /\ req[r].pc = "save"
    /\ UNCHANGED <<nextId, nreq, probe, users>>
    /\ LET q == req[r]
       IN  IF db[q.id].exists
           THEN /\ db' = [db EXCEPT ![q.id] = Save(@, q.doc, q.dirty)]
                /\ req' = [req EXCEPT ![r].pc = "mail",
                                      ![r].dirty = {},
                                      ![r].ret = <<q.oldStatus, q.status>>]
                /\ last' = last
           ELSE /\ db' = db
                /\ Respond(r, Err(400, <<"No document found for query">>))

\* the status mail: sendEmail rethrows a transport failure, and the call is
\* inside the handler's try block
UpdateStatusMail(r, sent) ==
    /\ req[r].op = "status" /\ req[r].pc = "mail"
    /\ UNCHANGED <<db, nextId, nreq, probe, users>>
    /\ Respond(r, Mailed(sent, IF sent
                                THEN [Ok(200) EXCEPT !.statusChange = req[r].ret]
                                ELSE Err(400, <<"Failed to send email">>)))

\* PUT /:id up to the end of findById
UpdateConsultation(r, actor, id, body) ==
    FindById(r, "put", actor, id, "none", "", body)

\* DELETE /:id up to the end of findById
DeleteConsultation(r, actor, id) ==
    FindById(r, "delete", actor, id, "none", "", EmptyBody)

\* NotOwnerNorAdmin that turns away the administrators who are not the owner
NotOwnerButAdmin(doc, actor) == doc.user # actor /\ actor \in Admins

\* consultation.user.toString() !== req.user.id && req.user.role !== "admin"
NotOwnerNorAdmin(doc, actor) == doc.user # actor /\ actor \notin Admins

\* OwnerAfterProcessing that refuses the owner only once the consultation is closed
OwnerAfterClosed(doc, actor) == doc.user = actor /\ doc.status \in {"completed", "cancelled"}

\* consultation.user.toString() === req.user.id && consultation.status !== "pending"
OwnerAfterProcessing(doc, actor) == doc.user = actor /\ doc.status # "pending"

\* the checks updateConsultation and deleteConsultation make on the loaded
\* document before they write
OwnerChecks(r, op, verb) ==
    /\ req[r].op = op /\ req[r].pc = "loaded"
    /\ UNCHANGED <<db, nextId, nreq, probe, users>>
    /\ LET q == req[r]
       IN  IF ~q.doc.exists
           THEN Respond(r, Err(404, <<"Consultation not found">>))
           ELSE IF NotOwnerNorAdmin(q.doc, q.actor)
           THEN Respond(r, Err(401, <<"Not authorized to ", verb, " this consultation">>))
           ELSE IF OwnerAfterProcessing(q.doc, q.actor)
           THEN Respond(r, Err(400, <<"Cannot ", verb,
                                      " consultation after it has been processed">>))
           ELSE req' = [req EXCEPT ![r].pc = "write"] /\ last' = last

UpdateConsultationChecks(r) == OwnerChecks(r, "put", "update")

DeleteConsultationChecks(r) == OwnerChecks(r, "delete", "delete")

\* Consultation.findByIdAndUpdate(id, req.body, {new, runValidators}): the
\* body is applied as given; a missing document makes it return null
UpdateConsultationWrite(r) ==
    /\ req[r].op = "put" /\ req[r].pc = "write"
    /\ UNCHANGED <<nextId, nreq, probe, users>>
    /\ LET q == req[r]
       IN  IF ~BodyValid(q.body)
           THEN db' = db /\ Respond(r, Err(400, <<"Validation Error">>))
           ELSE /\ db' = IF db[q.id].exists
                         THEN [db EXCEPT ![q.id] = ApplyBody(@, q.body)]
                         ELSE db
                /\ Respond(r, [Ok(200) EXCEPT
                                  !.data = IF db[q.id].exists THEN <<q.id>> ELSE <<>>])

\* Consultation.findByIdAndDelete(id)
DeleteConsultationWrite(r) ==
    /\ req[r].op = "delete" /\ req[r].pc = "write"
    /\ UNCHANGED <<nextId, nreq, probe, users>>
    /\ db' = [db EXCEPT ![req[r].id] = NoDoc]
    /\ Respond(r, Ok(200))

\* GET /:id up to the end of findById(...).populate("user"); the ids the
\* model draws all have the 24 hex digits the handler asks for first
GetConsultation(r, actor, id) ==
    FindById(r, "get", actor, id, "none", "", EmptyBody)

\* the checks of getConsultation on the loaded document, and its answer
GetConsultationRespond(r) ==
    /\ req[r].op = "get" /\ req[r].pc = "loaded"
    /\ UNCHANGED <<db, nextId, nreq, probe, users>>
    /\ LET q == req[r]
       IN  IF ~q.doc.exists
           THEN Respond(r, Err(404, <<"Consultation not found">>))
           ELSE IF NotOwnerNorAdmin(q.doc, q.actor)
           THEN Respond(r, Err(401, <<"Not authorized to access this consultation">>))
           ELSE Respond(r, [Ok(200) EXCEPT !.data = <<q.id>>])

\* markAsUrgent and markAsResolved are exported by the controller and
\* documented as admin routes (PATCH /:id/urgent, PATCH /:id/resolve,
\* "@access Private/Admin"); the consultation router mounts neither
MarkAsUrgent(r, actor, id) ==
    /\ actor \in Admins
    /\ FindById(r, "urgent", actor, id, "none", "", EmptyBody)

MarkAsResolved(r, actor, id) ==
    /\ actor \in Admins
    /\ FindById(r, "resolve", actor, id, "none", "", EmptyBody)

\* an assignment marks its path modified only when the value changes
Assigned(doc, dirty, path, value) == IF doc[path] = value THEN dirty ELSE dirty \cup {path}

\* consultation.isUrgent = true
MarkAsUrgentSet(r) ==
    /\ req[r].op = "urgent" /\ req[r].pc = "loaded"
    /\ UNCHANGED <<db, nextId, nreq, probe, users>>
    /\ IF ~req[r].doc.exists
       THEN Respond(r, Err(404, <<"Consultation not found">>))
       ELSE /\ req' = [req EXCEPT
                ![r].dirty = Assigned(req[r].doc, @, "isUrgent", TRUE),
                ![r].doc = [@ EXCEPT !.isUrgent = TRUE],
                ![r].pc = "save"]
            /\ last' = last

\* consultation.status = "completed" (followUpDate is not a schema path)
MarkAsResolvedSet(r) ==
    /\ req[r].op = "resolve" /\ req[r].pc = "loaded"
    /\ UNCHANGED <<db, nextId, nreq, probe, users>>
    /\ IF ~req[r].doc.exists
       THEN Respond(r, Err(404, <<"Consultation not found">>))
       ELSE /\ req' = [req EXCEPT
                ![r].dirty = Assigned(req[r].doc, @, "status", "completed"),
                ![r].doc = [@ EXCEPT !.status = "completed"],
                ![r].pc = "save"]
            /\ last' = last

\* await consultation.save() of markAsUrgent (answers 200) and of
\* markAsResolved (goes on to its mail); a save of a document that is gone
\* throws, and neither handler catches
MarkSave(r, op) ==
    /\ req[r].op = op /\ req[r].pc = "save"
    /\ UNCHANGED <<nextId, nreq, probe, users>>
    /\ LET q == req[r]
       IN  IF db[q.id].exists
           THEN /\ db' = [db EXCEPT ![q.id] = Save(@, q.doc, q.dirty)]
                /\ IF op = "urgent"
                   THEN Respond(r, Ok(200))
                   ELSE /\ req' = [req EXCEPT ![r].dirty = {}, ![r].pc = "mail"]
                        /\ last' = last
           ELSE /\ db' = db
                /\ Respond(r, Err(500, <<"No document found for query">>))

MarkAsUrgentSave(r) == MarkSave(r, "urgent")

MarkAsResolvedSave(r) == MarkSave(r, "resolve")

\* markAsResolved calls sendEmail({email, subject, template, data}): sendEmail
\* reads `to` and `html`, so the mail has no recipient, the transport rejects
\* it, sendEmail rethrows and nothing catches
MarkAsResolvedMail(r) ==
    /\ req[r].op = "resolve" /\ req[r].pc = "mail"
    /\ UNCHANGED <<db, nextId, nreq, probe, users>>
    /\ Respond(r, Mailed(FALSE, Err(500, <<"Failed to send email">>)))

\* ------------------------------------------------------------ the queries
\* find(filter) for a filter object of path: value pairs: the ids of the
\* stored documents that hold that value at each of the paths
Find(filter) ==
    {id \in DOMAIN db :
        db[id].exists /\ \A path \in DOMAIN filter : db[id][path] = filter[path]}

\* sort("-createdAt") of a result: every order of its documents in which
\* createdAt never increases; documents created in the same millisecond come
\* in either order
NewestFirst(ids) ==
    {out \in [1..Cardinality(ids) -> ids] :
        /\ \A i, j \in 1..Cardinality(ids) : i # j => out[i] # out[j]
        /\ \A i, j \in 1..Cardinality(ids) :
               i < j => db[out[i]].createdAt >= db[out[j]].createdAt}

\* limit(n) of a sorted result
Limit(out, n) == SubSeq(out, 1, IF Len(out) < n THEN Len(out) ELSE n)

\* find() without a filter: the filter with no path
AnyDoc == <<>>

\* PendingQuery that selects by the urgency flag instead of the status
NotUrgentQuery == [isUrgent |-> FALSE]

\* { status: "pending" } of the controller's getPendingConsultations
PendingQuery == [status |-> "pending"]

\* { isUrgent: true } || { status: "urgent" } of the controller's
\* getUrgentConsultations: the first operand is an object, hence truthy, and
\* is the value of the expression
UrgentQuery == [isUrgent |-> TRUE]

\* { status: "pending" } of the model's static getPendingConsultations
StaticPendingQuery == [status |-> "pending"]

\* { isUrgent: true, status: "pending" } of the model's static
\* getUrgentConsultations
StaticUrgentQuery == [isUrgent |-> TRUE, status |-> "pending"]

\* Consultation.getPendingConsultations(): its possible results
getPendingConsultations == NewestFirst(Find(StaticPendingQuery))

\* Consultation.getUrgentConsultations(): its possible results
getUrgentConsultations == NewestFirst(Find(StaticUrgentQuery))

\* a direct call of one of the two statics (no handler calls them)
CallStatic(name, results) ==
    /\ \E out \in results : last' = [NoRes EXCEPT !.op = name, !.data = out]
    /\ UNCHANGED <<db, nextId, req, nreq, probe, users>>

GetPendingConsultationsStatic ==
    CallStatic("Consultation.getPendingConsultations", getPendingConsultations)

GetUrgentConsultationsStatic ==
    CallStatic("Consultation.getUrgentConsultations", getUrgentConsultations)

\* a handler that is one find(filter).sort("-createdAt") and its answer;
\* like the two marking handlers these are documented as admin routes
ListHandler(r, op, actor, filter) ==
    /\ Free(r) /\ actor \in Admins
    /\ nreq' = nreq + 1
    /\ \E out \in NewestFirst(Find(filter)) :
           last' = [Ok(200) EXCEPT !.op = op, !.actor = actor, !.data = out]
    /\ UNCHANGED <<db, nextId, req, probe, users>>

\* GET /api/consultations/pending
GetPendingConsultations(r, actor) == ListHandler(r, "pending", actor, PendingQuery)

\* GET /api/consultations/urgent
GetUrgentConsultations(r, actor) == ListHandler(r, "urgentlist", actor, UrgentQuery)

\* Aggregate whose total leaves the cancelled consultations out
AggregateOpenOnly ==
    [total |-> Cardinality(Find(AnyDoc)) - Cardinality(Find([status |-> "cancelled"])),
     pending |-> Cardinality(Find([status |-> "pending"])),
     completed |-> Cardinality(Find([status |-> "completed"])),
     cancelled |-> Cardinality(Find([status |-> "cancelled"])),
     urgent |-> Cardinality(Find([isUrgent |-> TRUE]))]

\* the $group stage of getConsultationStats: one sum per figure
Aggregate ==
    [total |-> Cardinality(Find(AnyDoc)),
     pending |-> Cardinality(Find([status |-> "pending"])),
     completed |-> Cardinality(Find([status |-> "completed"])),
     cancelled |-> Cardinality(Find([status |-> "cancelled"])),
     urgent |-> Cardinality(Find([isUrgent |-> TRUE]))]

\* the figures sent when the aggregation returns no group
ZeroStats == [total |-> 0, pending |-> 0, completed |-> 0, cancelled |-> 0, urgent |-> 0]

\* .limit(5) of the recent consultations
RecentLimit == 5

\* getConsultationStats up to the end of Consultation.aggregate: an empty
\* collection yields no group
GetConsultationStats(r, actor) ==
    /\ Free(r) /\ actor \in Admins
    /\ nreq' = nreq + 1
    /\ req' = [req EXCEPT ![r] =
                 [NewReq("stats", actor, 0, "none", "", EmptyBody) EXCEPT
                     !.pc = "recent",
                     !.agg = IF Find(AnyDoc) = {} THEN <<>> ELSE <<Aggregate>>]]
    /\ UNCHANGED <<db, nextId, last, probe, users>>

\* the find().sort("-createdAt").limit(5) of getConsultationStats and its answer
GetConsultationStatsRecent(r) ==
    /\ req[r].op = "stats" /\ req[r].pc = "recent"
    /\ UNCHANGED <<db, nextId, nreq, probe, users>>
    /\ \E out \in NewestFirst(Find(AnyDoc)) :
           Respond(r, [Ok(200) EXCEPT
                         !.stats = IF req[r].agg = <<>> THEN <<ZeroStats>> ELSE req[r].agg,
                         !.data = Limit(out, RecentLimit)])

\* the characters of the service names
ServiceText ==
    [residential |-> <<"r", "e", "s", "i", "d", "e", "n", "t", "i", "a", "l">>,
     commercial |-> <<"c", "o", "m", "m", "e", "r", "c", "i", "a", "l">>]

\* the flag "i": letters are compared without their case
Lower(c) ==
    CASE c = "A" -> "a" [] c = "L" -> "l" [] c = "O" -> "o" [] c = "V" -> "v"
      [] OTHER -> c

\* new RegExp(source, "i") throws a SyntaxError for a source that opens a
\* group it does not close
RegExpCompiles(source) ==
    \A i \in 1..Len(source) :
        source[i] = "(" => \E j \in (i + 1)..Len(source) : source[j] = ")"

\* the regular expression matches the text somewhere: a source made of
\* letters and of ".", where "." stands for any character
RegExpTest(source, text) ==
    \E off \in 0..(Len(text) - Len(source)) :
        \A k \in 1..Len(source) :
            source[k] = "." \/ Lower(source[k]) = Lower(text[off + k])

\* the paths of the $or that hold text in a consultation; the $or also names
\* "user.name", which no stored consultation has (user holds an ObjectId, it
\* is populated only after the query)
SearchPaths == {"description", "service", "projectType", "location"}

TextAt(doc, path) == IF path = "service" THEN ServiceText[doc.service] ELSE doc[path]

\* a parameter of req.query counts when it is present and not empty
Given(param, empty) == param # <<>> /\ param[1] # empty

\* the query object getConsultations builds from req.query, as the condition
\* it puts on a document
QueryMatches(doc, query) ==
    /\ (Given(query.status, "") /\ query.status[1] # "all")
           => doc.status = query.status[1]
    /\ (Given(query.service, "") /\ query.service[1] # "all")
           => doc.service = query.service[1]
    /\ Given(query.search, <<>>)
           => \E path \in SearchPaths : RegExpTest(query.search[1], TextAt(doc, path))

\* find(query) and countDocuments(query) for the query of getConsultations
FindQuery(query) == {id \in DOMAIN db : db[id].exists /\ QueryMatches(db[id], query)}

\* GET /api/consultations: authorize("admin"), then the handler up to the
\* end of countDocuments(query); a SyntaxError of new RegExp is passed on by
\* asyncHandler and answered 500
GetConsultations(r, actor, query) ==
    IF actor \notin Admins
    THEN Refuse(r, "list", actor, 0, "none", "", EmptyBody, Err(403, <<"Forbidden">>))
    ELSE IF Given(query.search, <<>>) /\ ~RegExpCompiles(query.search[1])
    THEN Refuse(r, "list", actor, 0, "none", "", EmptyBody,
                Err(500, <<"Invalid regular expression">>))
    ELSE /\ Free(r)
         /\ nreq' = nreq + 1
         /\ req' = [req EXCEPT ![r] =
                      [NewReq("list", actor, 0, "none", "", EmptyBody) EXCEPT
                          !.pc = "find",
                          !.query = query,
                          !.agg = <<Cardinality(FindQuery(query))>>]]
         /\ UNCHANGED <<db, nextId, last, probe, users>>

\* the find(query).sort("-createdAt") of getConsultations and its answer
GetConsultationsFind(r) ==
    /\ req[r].op = "list" /\ req[r].pc = "find"
    /\ UNCHANGED <<db, nextId, nreq, probe, users>>
    /\ \E out \in NewestFirst(FindQuery(req[r].query)) :
           Respond(r, [Ok(200) EXCEPT !.total = req[r].agg[1], !.data = out])

\* ------------------------------------------------------ the user handlers
\* protect and authorize("admin") of the users router: the caller is a
\* stored user whose role is admin
IsAdmin(actor) == users[actor].exists /\ users[actor].role = "admin"

\* User.countDocuments({ role: "admin" })
AdminCount == Cardinality({id \in UserIds : users[id].exists /\ users[id].role = "admin"})

\* DELETE /api/users up to the end of countDocuments
DeleteUsers(r, actor) ==
    IF ~IsAdmin(actor)
    THEN Refuse(r, "deleteUsers", actor, 0, "none", "", EmptyBody, Err(403, <<"Forbidden">>))
    ELSE /\ Free(r)
         /\ nreq' = nreq + 1
         /\ req' = [req EXCEPT ![r] =
                      [NewReq("deleteUsers", actor, 0, "none", "", EmptyBody) EXCEPT
                          !.pc = "counted", !.agg = <<AdminCount>>]]
         /\ UNCHANGED <<db, nextId, last, probe, users>>

\* the test of the count, then User.deleteMany({}) and the answer
DeleteUsersMany(r) ==
    /\ req[r].op = "deleteUsers" /\ req[r].pc = "counted"
    /\ UNCHANGED <<db, nextId, nreq, probe>>
    /\ IF req[r].agg[1] <= 1
       THEN /\ users' = users
            /\ Respond(r, Err(400, <<"Cannot delete all users as it would remove the last admin">>))
       ELSE /\ users' = [id \in UserIds |-> NoUser]
            /\ Respond(r, Ok(200))

\* the first stretch of a handler that starts with User.findById or
\* User.findOne({ email }): emails are unique, so either names one document
FindUser(r, op, actor, target, reason, duration, password, token) ==
    /\ Free(r)
    /\ nreq' = nreq + 1
    /\ req' = [req EXCEPT ![r] =
                 [NewReq(op, actor, 0, "none", reason, EmptyBody) EXCEPT
                     !.target = target, !.doc = users[target],
                     !.duration = duration, !.password = password, !.token = token]]
    /\ UNCHANGED <<db, nextId, last, probe, users>>

\* user.isCurrentlyBlocked() at time now
isCurrentlyBlocked(user, now) ==
    IF ~user.isBlocked THEN FALSE
    ELSE IF user.blockExpiresAt = 0 THEN TRUE
    ELSE user.blockExpiresAt > now

\* the entry blockUser pushes; unblockedAt 0 is an entry not closed yet
BlockEntry(blockedBy, reason, expiresAt, now) ==
    [blockedBy |-> blockedBy, reason |-> reason, expiresAt |-> expiresAt,
     blockedAt |-> now, unblockedAt |-> 0]

\* the modified paths of a user document that save() $sets
UserScalars ==
    {"isBlocked", "blockExpiresAt", "blockReason", "password",
     "resetPasswordToken", "resetPasswordExpire"}

\* user.save() of a loaded user: one update that $sets the modified paths,
\* $pushes a pushed blockHistory entry (and increments the version), and
\* $sets unblockedAt in the entry at the index it had when loaded
SaveUser(stored, user, dirty) ==
    [path \in DOMAIN stored |->
        IF path \in UserScalars
        THEN IF path \in dirty THEN user[path] ELSE stored[path]
        ELSE IF path = "blockHistory"
        THEN IF "blockHistory" \in dirty
             THEN Append(stored.blockHistory, Last(user.blockHistory))
             ELSE IF "blockHistory.unblockedAt" \in dirty
             THEN [stored.blockHistory EXCEPT
                      ![Len(user.blockHistory)].unblockedAt =
                          Last(user.blockHistory).unblockedAt]
             ELSE stored.blockHistory
        ELSE IF path = "v"
        THEN IF "blockHistory" \in dirty THEN stored.v + 1 ELSE stored.v
        ELSE stored[path]]

\* a $set inside an array element is sent with the version the document had
\* when loaded; it matches nothing once a push has incremented the version
VersionConflict(stored, user, dirty) ==
    "blockHistory.unblockedAt" \in dirty /\ stored.v # user.v

\* POST /api/users/:id/block up to the end of findById
BlockUser(r, actor, target, reason, duration) ==
    IF ~IsAdmin(actor)
    THEN Refuse(r, "block", actor, 0, "none", reason, EmptyBody, Err(403, <<"Forbidden">>))
    ELSE IF reason = ""
    THEN Refuse(r, "block", actor, 0, "none", reason, EmptyBody,
                Err(400, <<"Please provide a reason for blocking">>))
    ELSE FindUser(r, "block", actor, target, reason, duration, "", 0)

\* the checks of blockUser and user.blockUser(...) up to its save(); a
\* duration of 0 is an absent (or zero) durationInHours: a permanent block
BlockUserChecks(r) ==
    /\ req[r].op = "block" /\ req[r].pc = "loaded"
    /\ UNCHANGED <<db, nextId, nreq, probe, users>>
    /\ LET q == req[r]
           expiresAt == IF q.duration # 0 THEN nreq + q.duration ELSE 0
       IN  IF ~q.doc.exists
           THEN Respond(r, Err(404, <<"User not found">>))
           ELSE IF q.doc.role = "admin"
           THEN Respond(r, Err(403, <<"Cannot block admin users">>))
           ELSE IF isCurrentlyBlocked(q.doc, nreq)
           THEN Respond(r, Err(400, <<"User is already blocked">>))
           ELSE /\ req' = [req EXCEPT
                    ![r].dirty =
                        Assigned(q.doc,
                          Assigned(q.doc,
                            Assigned(q.doc, {"blockHistory"}, "isBlocked", TRUE),
                            "blockReason", q.reason),
                          "blockExpiresAt", expiresAt),
                    ![r].doc = [q.doc EXCEPT
                                  !.isBlocked = TRUE,
                                  !.blockReason = q.reason,
                                  !.blockExpiresAt = expiresAt,
                                  !.blockHistory =
                                      Append(@, BlockEntry(q.actor, q.reason, expiresAt, nreq))],
                    ![r].pc = "save"]
                /\ last' = last

\* the save() of a user handler that answers 200 after it; a save of a
\* document that is gone, or with a stale version, throws
SaveUserAndRespond(r, op) ==
    /\ req[r].op = op /\ req[r].pc = "save"
    /\ UNCHANGED <<db, nextId, nreq, probe>>
    /\ LET q == req[r]
       IN  IF ~users[q.target].exists
           THEN users' = users /\ Respond(r, Err(500, <<"No document found for query">>))
           ELSE IF VersionConflict(users[q.target], q.doc, q.dirty)
           THEN users' = users /\ Respond(r, Err(500, <<"No matching document found for id">>))
           ELSE /\ users' = [users EXCEPT ![q.target] = SaveUser(@, q.doc, q.dirty)]
                /\ Respond(r, Ok(200))

BlockUserSave(r) == SaveUserAndRespond(r, "block")

\* POST /api/users/:id/unblock up to the end of findById
UnblockUser(r, actor, target) ==
    IF ~IsAdmin(actor)
    THEN Refuse(r, "unblock", actor, 0, "none", "", EmptyBody, Err(403, <<"Forbidden">>))
    ELSE FindUser(r, "unblock", actor, target, "", 0, "", 0)

\* the checks of unblockUser and user.unblockUser() up to its save()
UnblockUserChecks(r) ==
    /\ req[r].op = "unblock" /\ req[r].pc = "loaded"
    /\ UNCHANGED <<db, nextId, nreq, probe, users>>
    /\ LET q == req[r]
       IN  IF ~q.doc.exists
           THEN Respond(r, Err(404, <<"User not found">>))
           ELSE IF ~isCurrentlyBlocked(q.doc, nreq)
           THEN Respond(r, Err(400, <<"User is not blocked">>))
           ELSE /\ req' = [req EXCEPT
                    ![r].dirty =
                        Assigned(q.doc, Assigned(q.doc, {}, "isBlocked", FALSE),
                                 "blockReason", "")
                        \cup (IF q.doc.blockHistory # <<>>
                              THEN {"blockHistory.unblockedAt"} ELSE {}),
                    ![r].doc = [q.doc EXCEPT
                                  !.isBlocked = FALSE,
                                  !.blockReason = "",
                                  !.blockHistory =
                                      IF @ # <<>>
                                      THEN [@ EXCEPT ![Len(@)].unblockedAt = nreq]
                                      ELSE @],
                    ![r].pc = "save"]
                /\ last' = last

UnblockUserSave(r) == SaveUserAndRespond(r, "unblock")

\* POST /api/auth/login up to the end of findOne({ email }); a request
\* without email or password is answered 400 before it
Login(r, target, password) ==
    IF password = ""
    THEN Refuse(r, "login", target, 0, "none", "", EmptyBody,
                Err(400, <<"Please provide email and password">>))
    ELSE FindUser(r, "login", target, target, "", 0, password, 0)

\* the checks of login: the user, the isBlocked flag, the password
LoginChecks(r) ==
    /\ req[r].op = "login" /\ req[r].pc = "loaded"
    /\ UNCHANGED <<db, nextId, nreq, probe, users>>
    /\ LET q == req[r]
       IN  IF ~q.doc.exists
           THEN Respond(r, Err(401, <<"Invalid credentials">>))
           ELSE IF q.doc.isBlocked
           THEN Respond(r, Err(403, <<"Account is blocked">>))
           ELSE IF q.doc.password # Hash("bcrypt", q.password)
           THEN Respond(r, Err(401, <<"Invalid credentials">>))
           ELSE req' = [req EXCEPT ![r].pc = "save"] /\ last' = last

\* the save() of the refresh token and the answer with the tokens
LoginSave(r) == SaveUserAndRespond(r, "login")

\* ---------------------------------------------------------- password reset
\* the length of a password a client sends
PasswordLength == [p \in {"", "abc", "secret1", "secret2", "wrong"} |->
                     IF p = "" THEN 0 ELSE IF p = "abc" THEN 3
                     ELSE IF p = "wrong" THEN 5 ELSE 7]

\* userSchema.password: minlength 6, validated by save() when modified
PasswordValid(password) == PasswordLength[password] >= 6

\* POST /api/auth/forgotpassword up to the end of findOne({ email }); the
\* token crypto.randomBytes will give the request is the number of its
\* arrival, a value no other request gets
ForgotPassword(r, email) ==
    IF email = ""
    THEN Refuse(r, "forgot", "none", 0, "none", "", EmptyBody,
                Err(400, <<"Please provide email address">>))
    ELSE FindUser(r, "forgot", email, email, "", 0, "", nreq + 1)

\* user.getResetPasswordToken(): the hash and the expiry set on the document
ForgotPasswordToken(r) ==
    /\ req[r].op = "forgot" /\ req[r].pc = "loaded"
    /\ UNCHANGED <<db, nextId, nreq, probe, users>>
    /\ LET q == req[r]
           hashed == Hash("sha256", q.token)
           expire == nreq + ResetTokenLife
       IN  IF ~q.doc.exists
           THEN Respond(r, Err(404, <<"There is no user with that email">>))
           ELSE /\ req' = [req EXCEPT
                    ![r].dirty = Assigned(q.doc,
                                   Assigned(q.doc, {}, "resetPasswordToken", hashed),
                                   "resetPasswordExpire", expire),
                    ![r].doc = [q.doc EXCEPT !.resetPasswordToken = hashed,
                                             !.resetPasswordExpire = expire],
                    ![r].pc = "save"]
                /\ last' = last

\* a save() of the user in slot r that is followed by more of the handler
SaveUserAndGo(r, op, from, to) ==
    /\ req[r].op = op /\ req[r].pc = from
    /\ UNCHANGED <<db, nextId, nreq, probe>>
    /\ LET q == req[r]
       IN  IF ~users[q.target].exists
           THEN users' = users /\ Respond(r, Err(500, <<"No document found for query">>))
           ELSE /\ users' = [users EXCEPT ![q.target] = SaveUser(@, q.doc, q.dirty)]
                /\ req' = [req EXCEPT ![r].pc = to, ![r].dirty = {}]
                /\ last' = last

\* await user.save() of forgotPassword
ForgotPasswordSave(r) == SaveUserAndGo(r, "forgot", "save", "mail")

\* sendEmail of forgotPassword: sent, the answer is 200; failed, the catch
\* unsets the token and its expiry on the document
ForgotPasswordMail(r, sent) ==
    /\ req[r].op = "forgot" /\ req[r].pc = "mail"
    /\ UNCHANGED <<db, nextId, nreq, probe, users>>
    /\ IF sent
       THEN Respond(r, Mailed(TRUE, Ok(200)))
       ELSE /\ req' = [req EXCEPT
                ![r].dirty = {"resetPasswordToken", "resetPasswordExpire"},
                ![r].doc = [req[r].doc EXCEPT !.resetPasswordToken = <<>>,
                                              !.resetPasswordExpire = 0],
                ![r].pc = "clear"]
            /\ last' = last

\* the save() of the catch and its answer
ForgotPasswordClear(r) ==
    /\ req[r].op = "forgot" /\ req[r].pc = "clear"
    /\ UNCHANGED <<db, nextId, nreq, probe>>
    /\ LET q == req[r]
       IN  IF ~users[q.target].exists
           THEN users' = users /\ Respond(r, Err(500, <<"No document found for query">>))
           ELSE /\ users' = [users EXCEPT ![q.target] = SaveUser(@, q.doc, q.dirty)]
                /\ Respond(r, Mailed(FALSE, Err(500, <<"Email could not be sent">>)))

\* User.findOne({ resetPasswordToken, resetPasswordExpire: { $gt: now } })
FindByResetToken(hashed, now) ==
    {id \in UserIds : /\ users[id].exists
                      /\ users[id].resetPasswordToken = hashed
                      /\ users[id].resetPasswordExpire > now}

\* PUT /api/auth/resetpassword/:resettoken up to the end of findOne
ResetPassword(r, token, password) ==
    IF password = ""
    THEN Refuse(r, "reset", "none", 0, "none", "", EmptyBody,
                Err(400, <<"Please provide new password">>))
    ELSE LET found == FindByResetToken(Hash("sha256", token), nreq + 1)
         IN  /\ Free(r)
             /\ nreq' = nreq + 1
             /\ req' = [req EXCEPT ![r] =
                          [NewReq("reset", "none", 0, "none", "", EmptyBody) EXCEPT
                              !.target = IF found = {} THEN "none"
                                         ELSE CHOOSE id \in found : TRUE,
                              !.doc = IF found = {} THEN NoUser
                                      ELSE users[CHOOSE id \in found : TRUE],
                              !.password = password, !.token = token]]
             /\ UNCHANGED <<db, nextId, last, probe, users>>

\* the check of resetPassword and its assignments to the document
ResetPasswordSet(r) ==
    /\ req[r].op = "reset" /\ req[r].pc = "loaded"
    /\ UNCHANGED <<db, nextId, nreq, probe, users>>
    /\ LET q == req[r]
       IN  IF ~q.doc.exists
           THEN Respond(r, Err(400, <<"Invalid or expired token">>))
           ELSE /\ req' = [req EXCEPT
                    ![r].dirty = {"password", "resetPasswordToken",
                                  "resetPasswordExpire"},
                    ![r].doc = [q.doc EXCEPT !.resetPasswordToken = <<>>,
                                             !.resetPasswordExpire = 0],
                    ![r].pc = "save"]
                /\ last' = last

\* the first save() of resetPassword: validation, then pre("save") hashes
\* the password and the update is sent
ResetPasswordSave(r) ==
    /\ req[r].op = "reset" /\ req[r].pc = "save"
    /\ UNCHANGED <<db, nextId, nreq, probe>>
    /\ LET q == req[r]
           hashed == [q.doc EXCEPT !.password = Hash("bcrypt", q.password)]
       IN  IF ~PasswordValid(q.password)
           THEN users' = users /\ Respond(r, Err(500, <<"User validation failed">>))
           ELSE IF ~users[q.target].exists
           THEN users' = users /\ Respond(r, Err(500, <<"No document found for query">>))
           ELSE /\ users' = [users EXCEPT ![q.target] = SaveUser(@, hashed, q.dirty)]
                /\ req' = [req EXCEPT ![r].pc = "refresh", ![r].dirty = {},
                                      ![r].doc = hashed]
                /\ last' = last

\* the save() of the refresh token and the answer
ResetPasswordRefresh(r) ==
    /\ req[r].op = "reset" /\ req[r].pc = "refresh"
    /\ UNCHANGED <<db, nextId, nreq, probe>>
    /\ LET q == req[r]
       IN  IF ~users[q.target].exists
           THEN users' = users /\ Respond(r, Err(500, <<"No document found for query">>))
           ELSE /\ users' = [users EXCEPT ![q.target] = SaveUser(@, q.doc, q.dirty)]
                /\ Respond(r, Ok(200))

\* ------------------------------------------------------ the specification
Next ==
    \/ \E r \in Slots, actor \in Users, body \in Bodies :
           CreateConsultation(r, actor, body)
    \/ \E r \in Slots, sent \in BOOLEAN : CreateConsultationMail(r, sent)
    \/ \E r \in Slots, actor \in Users, id \in ConsIds, body \in Bodies :
           UpdateConsultation(r, actor, id, body)
    \/ \E r \in Slots : UpdateConsultationChecks(r)
    \/ \E r \in Slots : UpdateConsultationWrite(r)
    \/ \E r \in Slots, actor \in Users, id \in ConsIds :
           DeleteConsultation(r, actor, id)
    \/ \E r \in Slots : DeleteConsultationChecks(r)
    \/ \E r \in Slots : DeleteConsultationWrite(r)
    \/ \E r \in Slots, actor \in Users, id \in ConsIds,
          status \in RequestedStatuses, reason \in Reasons :
           UpdateConsultationStatus(r, actor, id, status, reason)
    \/ \E r \in Slots : UpdateStatus(r)
    \/ \E r \in Slots : UpdateStatusSave(r)
    \/ \E r \in Slots, sent \in BOOLEAN : UpdateStatusMail(r, sent)
    \/ \E r \in Slots, actor \in Users, id \in ConsIds : MarkAsUrgent(r, actor, id)
    \/ \E r \in Slots : MarkAsUrgentSet(r)
    \/ \E r \in Slots : MarkAsUrgentSave(r)
    \/ \E r \in Slots, actor \in Users, id \in ConsIds : MarkAsResolved(r, actor, id)
    \/ \E r \in Slots : MarkAsResolvedSet(r)
    \/ \E r \in Slots : MarkAsResolvedSave(r)
    \/ \E r \in Slots : MarkAsResolvedMail(r)
    \/ \E r \in Slots, actor \in Users, id \in ConsIds : GetConsultation(r, actor, id)
    \/ \E r \in Slots : GetConsultationRespond(r)

Spec == Init /\ [][Next]_vars

\* ------------------------------------- consultations changed by updateStatus only
\* creations with a body that names no status and no history, and status
\* updates
NextStatus ==
    \/ \E r \in Slots, actor \in Users : CreateConsultation(r, actor, EmptyBody)
    \/ \E r \in Slots, sent \in BOOLEAN : CreateConsultationMail(r, sent)
    \/ \E r \in Slots, actor \in Users, id \in ConsIds,
          status \in RequestedStatuses, reason \in Reasons :
           UpdateConsultationStatus(r, actor, id, status, reason)
    \/ \E r \in Slots : UpdateStatus(r)
    \/ \E r \in Slots : UpdateStatusSave(r)
    \/ \E r \in Slots, sent \in BOOLEAN : UpdateStatusMail(r, sent)

SpecStatus == Init /\ [][NextStatus]_vars

\* ------------------------------------------ canChangeStatus called directly
\* the statuses a caller may hold or ask for: the enum, strings outside it,
\* and a property name that object literals inherit
StatusInputs == Statuses \cup {"urgent", "", "PENDING", "constructor"}

InitCan ==
    /\ db = [i \in ConsIds |-> NoDoc]
    /\ nextId = 1
    /\ req = [r \in Slots |-> IdleReq]
    /\ nreq = 0
    /\ last = NoRes
    /\ probe \in [status : StatusInputs, newStatus : StatusInputs, out : {"none"}]
    /\ users = SeededUsers

\* consultation.canChangeStatus(newStatus) on a document whose status is
\* probe.status
CanChangeStatusCall ==
    /\ probe.out = "none"
    /\ probe' = [probe EXCEPT !.out = canChangeStatus(probe.status, probe.newStatus)]
    /\ UNCHANGED <<db, nextId, req, nreq, last, users>>

NextCan == CanChangeStatusCall

SpecCan == InitCan /\ [][NextCan]_vars

\* ------------------------------------- the listings and the statistics
\* The listing handlers only read.  They are explored over the collections
\* that creations, PUTs, status updates and deletions leave behind: any
\* status of the enum, any urgency flag, creation times that never decrease
\* with the id, some documents deleted.
ListDoc(status, isUrgent, createdAt) ==
    [NewDoc("u1", createdAt) EXCEPT !.status = status, !.isUrgent = isUrgent]

ListDocs ==
    {ListDoc(status, isUrgent, createdAt) :
        status \in Statuses, isUrgent \in BOOLEAN, createdAt \in 1..MaxStamp}

ListCollections ==
    {c \in [1..MaxDocs -> ListDocs \cup {NoDoc}] :
        \A i, j \in 1..MaxDocs :
            (i < j /\ c[i].exists /\ c[j].exists) => c[i].createdAt <= c[j].createdAt}

InitList ==
    /\ db \in ListCollections
    /\ nextId = MaxDocs + 1
    /\ req = [r \in Slots |-> IdleReq]
    /\ nreq = 0
    /\ last = NoRes
    /\ probe = [status |-> "none", newStatus |-> "none", out |-> "none"]
    /\ users = SeededUsers

NextList ==
    \/ \E r \in Slots, actor \in Users : GetPendingConsultations(r, actor)
    \/ \E r \in Slots, actor \in Users : GetUrgentConsultations(r, actor)
    \/ GetPendingConsultationsStatic
    \/ GetUrgentConsultationsStatic
    \/ \E r \in Slots, actor \in Users : GetConsultationStats(r, actor)
    \/ \E r \in Slots : GetConsultationStatsRecent(r)

SpecList == InitList /\ [][NextList]_vars

\* --------------------------------------- listings while the store changes
\* getConsultations and getConsultationStats each make two database calls;
\* here they run next to creations and deletions, from the empty collection
SnapQueries == {NoQuery, [NoQuery EXCEPT !.status = <<"pending">>]}

NextSnap ==
    \/ \E r \in Slots, actor \in Users, query \in SnapQueries :
           GetConsultations(r, actor, query)
    \/ \E r \in Slots : GetConsultationsFind(r)
    \/ \E r \in Slots, actor \in Users : GetConsultationStats(r, actor)
    \/ \E r \in Slots : GetConsultationStatsRecent(r)
    \/ \E r \in Slots, actor \in Users, body \in Bodies :
           CreateConsultation(r, actor, body)
    \/ \E r \in Slots, sent \in BOOLEAN : CreateConsultationMail(r, sent)
    \/ \E r \in Slots, actor \in Users, id \in ConsIds :
           DeleteConsultation(r, actor, id)
    \/ \E r \in Slots : DeleteConsultationChecks(r)
    \/ \E r \in Slots : DeleteConsultationWrite(r)

SpecSnap == Init /\ [][NextSnap]_vars

\* ------------------------------------------------------------ the accounts
\* the users collection the user handlers start from: the seeded accounts,
\* with one administrator or two
UserCollections ==
    {SeededUsers, [SeededUsers EXCEPT !["a2"] = NewUser("admin", "secret1")]}

InitUsers ==
    /\ db = [i \in ConsIds |-> NoDoc]
    /\ nextId = 1
    /\ req = [r \in Slots |-> IdleReq]
    /\ nreq = 0
    /\ last = NoRes
    /\ probe = [status |-> "none", newStatus |-> "none", out |-> "none"]
    /\ users \in UserCollections

\* the users a request is about, the reasons and the lengths of a block
\* (durationInHours as a time on the clock, 0 when absent), the passwords
Targets == {"u1", "a1", "a2"}

BlockReasons == {"", "spam"}

Durations == {0, 1, 2}

Passwords == {"", "secret1", "wrong"}

NextUsers ==
    \/ \E r \in Slots, actor \in UserIds : DeleteUsers(r, actor)
    \/ \E r \in Slots : DeleteUsersMany(r)
    \/ \E r \in Slots, actor \in UserIds, target \in Targets,
          reason \in BlockReasons, duration \in Durations :
           BlockUser(r, actor, target, reason, duration)
    \/ \E r \in Slots : BlockUserChecks(r)
    \/ \E r \in Slots : BlockUserSave(r)
    \/ \E r \in Slots, actor \in UserIds, target \in Targets :
           UnblockUser(r, actor, target)
    \/ \E r \in Slots : UnblockUserChecks(r)
    \/ \E r \in Slots : UnblockUserSave(r)
    \/ \E r \in Slots, target \in Targets, password \in Passwords :
           Login(r, target, password)
    \/ \E r \in Slots : LoginChecks(r)
    \/ \E r \in Slots : LoginSave(r)

SpecUsers == InitUsers /\ [][NextUsers]_vars

\* ------------------------------------------------------- the reset tokens
\* the users collection the reset handlers start from: the seeded accounts,
\* or those with u1 holding the token 0 that a forgotPassword served at
\* time 0 has mailed
IssuedToken ==
    [SeededUsers EXCEPT !["u1"].resetPasswordToken = Hash("sha256", 0),
                        !["u1"].resetPasswordExpire = ResetTokenLife]

InitReset ==
    /\ db = [i \in ConsIds |-> NoDoc]
    /\ nextId = 1
    /\ req = [r \in Slots |-> IdleReq]
    /\ nreq = 0
    /\ last = NoRes
    /\ probe = [status |-> "none", newStatus |-> "none", out |-> "none"]
    /\ users \in {SeededUsers, IssuedToken}

\* the addresses, tokens and new passwords a client sends
Emails == {"", "u1", "a2"}

ResetTokens == 0..MaxReqs

NewPasswords == {"", "abc", "secret2"}

NextReset ==
    \/ \E r \in Slots, email \in Emails : ForgotPassword(r, email)
    \/ \E r \in Slots : ForgotPasswordToken(r)
    \/ \E r \in Slots : ForgotPasswordSave(r)
    \/ \E r \in Slots, sent \in BOOLEAN : ForgotPasswordMail(r, sent)
    \/ \E r \in Slots : ForgotPasswordClear(r)
    \/ \E r \in Slots, token \in ResetTokens, password \in NewPasswords :
           ResetPassword(r, token, password)
    \/ \E r \in Slots : ResetPasswordSet(r)
    \/ \E r \in Slots : ResetPasswordSave(r)
    \/ \E r \in Slots : ResetPasswordRefresh(r)

SpecReset == InitReset /\ [][NextReset]_vars

\* ------------------------------------------------- the filtered listing
\* the collections searched: consultations of two statuses, two services
\* and two project types
SearchDoc(status, service, projectType) ==
    [NewDoc("u1", 1) EXCEPT !.status = status, !.service = service,
                            !.projectType = projectType]

SearchDocs ==
    {SearchDoc("pending", "residential", <<"l", "o", "f", "t">>),
     SearchDoc("confirmed", "commercial", <<"l", "o", "f", "t">>),
     SearchDoc("pending", "commercial", <<"V", "i", "l", "l", "a">>),
     SearchDoc("confirmed", "residential", <<"V", "i", "l", "l", "a">>)}

SearchCollections ==
    {c \in [1..MaxFound -> SearchDocs \cup {NoDoc}] : c[1].exists}

\* the search terms clients send: none, the empty string, letters in either
\* case, a term with a ".", and a term with an unclosed "("
SearchTerms ==
    {<<>>, << <<>> >>, << <<"L", "O">> >>, << <<"i", "a", "l">> >>,
     << <<"o", ".", "l">> >>, << <<"(", "a">> >>}

\* the queries clients send: every mix of a status, a service and a search
\* term given or not, and the value "all"
Queries ==
    [status : {<<>>, <<"pending">>}, service : {<<>>, <<"commercial">>},
     search : SearchTerms]
    \cup {[NoQuery EXCEPT !.status = <<"all">>], [NoQuery EXCEPT !.service = <<"all">>],
          [NoQuery EXCEPT !.status = <<"all">>, !.search = << <<"L", "O">> >>]}

InitSearch ==
    /\ db \in SearchCollections
    /\ nextId = MaxFound + 1
    /\ req = [r \in Slots |-> IdleReq]
    /\ nreq = 0
    /\ last = NoRes
    /\ probe = [status |-> "none", newStatus |-> "none", out |-> "none"]
    /\ users = SeededUsers

NextSearch ==
    \/ \E r \in Slots, actor \in Users, query \in Queries :
           GetConsultations(r, actor, query)
    \/ \E r \in Slots : GetConsultationsFind(r)

SpecSearch == InitSearch /\ [][NextSearch]_vars

\* ================================================================ claims
\* the transition table of the design (section 4.1), as (from, to) pairs
TransitionTable ==
    {<<"pending", "confirmed">>, <<"pending", "cancelled">>,
     <<"confirmed", "completed">>, <<"confirmed", "cancelled">>,
     <<"completed", "cancelled">>}

IsPrefix(s, t) == Len(s) <= Len(t) /\ \A i \in 1..Len(s) : s[i] = t[i]

\* slot r takes the step
Steps(r) == req'[r] # req[r]

\* slot r takes the step and it is the step that follows its findById
AfterLoad(r, op) ==
    /\ req[r].op = op /\ req[r].pc = "loaded" /\ req[r].doc.exists
    /\ Steps(r)

\* C1: a status update whose (current, requested) pair is not in the
\* transition table is answered 400 with the message "Invalid status
\* transition from <current> to <requested>", and the step that rejects it
\* leaves the store (status, history and everything else) as it was.
C1_InvalidTransitionRejected ==
    [][\A r \in Slots :
          (AfterLoad(r, "status")
           /\ <<req[r].doc.status, req[r].status>> \notin TransitionTable)
          => /\ db' = db
             /\ req'[r] = IdleReq
             /\ last'.op = "status"
             /\ last'.code = 400
             /\ last'.error = <<"Invalid status transition from ", req[r].doc.status,
                                " to ", req[r].status>>]_vars

C1_Witness ==
    /\ last.op = "status"
    /\ last.error = <<"Invalid status transition from ", "pending", " to ", "completed">>
    /\ db[1].exists /\ db[1].status = "pending" /\ db[1].statusHistory = <<>>

\* C2: a status update whose (current, requested) pair is in the table passes
\* the check; its save sets the stored status to the requested one and appends
\* exactly one history entry carrying the requested status and the acting
\* user, and updateStatus returns (oldStatus = current, newStatus = requested).
C2_ValidTransitionApplied ==
    [][\A r \in Slots :
          /\ (AfterLoad(r, "status")
              /\ <<req[r].doc.status, req[r].status>> \in TransitionTable)
             => /\ req'[r].pc = "save"
                /\ req'[r].oldStatus = req[r].doc.status
          /\ (req[r].op = "status" /\ req[r].pc = "save" /\ Steps(r)
              /\ db[req[r].id].exists)
             => LET id == req[r].id
                    old == db[id].statusHistory
                    new == db'[id].statusHistory
                IN  /\ db'[id].status = req[r].status
                    /\ Len(new) = Len(old) + 1
                    /\ IsPrefix(old, new)
                    /\ new[Len(new)].status = req[r].status
                    /\ new[Len(new)].changedBy = req[r].actor
                    /\ req'[r].ret = <<req[r].oldStatus, req[r].status>>]_vars

C2_Witness ==
    \E r \in Slots :
        /\ req[r].op = "status" /\ req[r].pc = "mail"
        /\ req[r].ret = <<"confirmed", "completed">>
        /\ db[req[r].id].status = "completed"
        /\ Len(db[req[r].id].statusHistory) = 2

\* C3: canChangeStatus returns true exactly for the pairs of the transition
\* table, and returns false (it never throws) for every other pair, whatever
\* the current status is.
C3_CanChangeStatusIsTable ==
    probe.out # "none" =>
        probe.out = IF <<probe.status, probe.newStatus>> \in TransitionTable
                    THEN "true" ELSE "false"

\* C4: of two status updates in flight together on one consultation, both
\* having found it pending, one asking for confirmed and one for cancelled,
\* at most one has its updateStatus return: they never both succeed.
C4_ExactlyOneWins ==
    \A r1, r2 \in Slots :
        (/\ r1 # r2
         /\ req[r1].op = "status" /\ req[r2].op = "status"
         /\ req[r1].id = req[r2].id
         /\ req[r1].oldStatus = "pending" /\ req[r2].oldStatus = "pending"
         /\ req[r1].status = "confirmed" /\ req[r2].status = "cancelled")
        => ~(req[r1].ret # <<>> /\ req[r2].ret # <<>>)

\* C5: every change of a stored status follows the transition table.
C5_OnlyLegalStatusChanges ==
    [][\A id \in ConsIds :
          (db[id].exists /\ db'[id].exists /\ db'[id].status # db[id].status)
          => <<db[id].status, db'[id].status>> \in TransitionTable]_vars

\* C6: every step that changes a stored status appends exactly one history
\* entry, with the new status and the user whose request made the change.
C6_StatusChangeAppendsEntry ==
    [][\A id \in ConsIds :
          (db[id].exists /\ db'[id].exists /\ db'[id].status # db[id].status)
          => LET old == db[id].statusHistory
                 new == db'[id].statusHistory
             IN  /\ Len(new) = Len(old) + 1
                 /\ IsPrefix(old, new)
                 /\ new[Len(new)].status = db'[id].status
                 /\ \E r \in Slots :
                        Steps(r) /\ new[Len(new)].changedBy = req[r].actor]_vars

\* C7: the status history of a consultation that stays in the store only
\* grows: the history before a step is a prefix of the history after it.
C7_HistoryAppendOnly ==
    [][\A id \in ConsIds :
          (db[id].exists /\ db'[id].exists)
          => IsPrefix(db[id].statusHistory, db'[id].statusHistory)]_vars

\* C8: a status update whose mail failed is still answered with success.
C8_MailFailureSwallowed ==
    (last.op = "status" /\ last.mailed = "failed") => last.code = 200

\* C9: the save of updateStatus shows the new status and the new history
\* entry together: whenever a step of updateStatus changes the stored status
\* or the stored history, the state after it has the requested status and a
\* history one entry longer whose last entry carries that status.
C9_StatusAndEntryTogether ==
    [][\A r \in Slots :
          (req[r].op = "status" /\ Steps(r) /\ db' # db)
          => LET id == req[r].id
                 old == db[id].statusHistory
                 new == db'[id].statusHistory
             IN  /\ \A i \in ConsIds \ {id} : db'[i] = db[i]
                 /\ db'[id].status = req[r].status
                 /\ Len(new) = Len(old) + 1
                 /\ IsPrefix(old, new)
                 /\ new[Len(new)].status = db'[id].status]_vars

C9_Witness ==
    \E r \in Slots :
        /\ req[r].op = "status" /\ req[r].pc = "mail"
        /\ db[req[r].id].status = "cancelled"
        /\ db[req[r].id].statusHistory # <<>>
        /\ Last(db[req[r].id].statusHistory).status = "cancelled"
        /\ Last(db[req[r].id].statusHistory).changedBy = req[r].actor

\* C10: a PUT or DELETE by the consultation's owner, when the owner is no
\* administrator and the consultation was found in a status other than
\* pending, is answered 400 and leaves the store as it was; such a request
\* reaches its write only for a consultation it found pending.
C10_OwnerWritesOnlyPending ==
    [][\A r \in Slots :
          /\ (/\ req[r].op \in {"put", "delete"}
              /\ AfterLoad(r, req[r].op)
              /\ req[r].doc.user = req[r].actor /\ req[r].actor \notin Admins
              /\ req[r].doc.status # "pending")
             => /\ db' = db
                /\ req'[r] = IdleReq
                /\ last'.code = 400
                /\ last'.actor = req[r].actor
          /\ (/\ req[r].op \in {"put", "delete"} /\ req[r].pc = "write"
              /\ req[r].actor \notin Admins
              /\ Steps(r) /\ db' # db)
             => (req[r].doc.user = req[r].actor /\ req[r].doc.status = "pending")]_vars

C10_Witness ==
    /\ last.op = "delete" /\ last.actor = "u1" /\ last.code = 400
    /\ last.error = <<"Cannot ", "delete", " consultation after it has been processed">>
    /\ db[1].exists /\ db[1].user = "u1" /\ db[1].status = "confirmed"

\* the handlers of GET, PUT and DELETE /:id
OwnerOps == {"get", "put", "delete"}

\* C11: GET, PUT and DELETE /:id go through only for the owner of the loaded
\* consultation or an administrator: for any other actor the step after the
\* load answers 401 with no data and leaves the store as it was, and no step
\* of such a request writes, moves on to its write or answers 200.
C11_OwnerOrAdminOnly ==
    [][\A r \in Slots :
          (req[r].op \in OwnerOps /\ Steps(r) /\ req[r].doc.exists
             /\ req[r].doc.user # req[r].actor /\ req[r].actor \notin Admins)
          => /\ db' = db
             /\ req'[r] = IdleReq
             /\ last'.code = 401
             /\ last'.data = <<>>]_vars

C11_Witness ==
    /\ last.op \in OwnerOps /\ last.code = 401 /\ last.data = <<>>
    /\ \E id \in ConsIds : db[id].exists /\ db[id].user # last.actor
    /\ last.actor \notin Admins

\* C12: the status of a stored consultation changes only in a step of a
\* request made by an administrator.
C12_StatusChangedByAdminOnly ==
    [][\A id \in ConsIds :
          (db[id].exists /\ db'[id].exists /\ db'[id].status # db[id].status)
          => \E r \in Slots : Steps(r) /\ req[r].actor \in Admins]_vars

\* C13: the document a successful createConsultation has just inserted has
\* status pending and an empty status history, whatever the body held.
C13_CreatedPendingNoHistory ==
    \A r \in Slots :
        (req[r].op = "create" /\ req[r].pc = "mail")
        => (req[r].doc.status = "pending" /\ req[r].doc.statusHistory = <<>>)

\* C14: no step changes the owner of a stored consultation.
C14_OwnerNeverChanges ==
    [][\A id \in ConsIds :
          (db[id].exists /\ db'[id].exists) => db'[id].user = db[id].user]_vars

\* C15: every stored status is one of pending, confirmed, completed and
\* cancelled; updateConsultationStatus never runs with a requested status
\* outside them: the step that receives such a request starts no handler,
\* answers 400 and leaves the store as it was.
C15_StatusInEnum ==
    /\ [](/\ \A id \in DOMAIN db : db[id].exists => db[id].status \in Statuses
          /\ \A r \in Slots : req[r].op = "status" => req[r].status \in Statuses)
    /\ [][(/\ nreq' = nreq + 1 /\ req' = req
           /\ last'.op = "status"
           /\ last'.error = <<"Status must be one of: pending, completed, confirmed, cancelled">>)
          => (db' = db /\ last'.code = 400)]_vars

C15_Witness ==
    /\ last.op = "status" /\ last.code = 400 /\ last.actor \in Admins
    /\ last.error = <<"Status must be one of: pending, completed, confirmed, cancelled">>
    /\ \E id \in ConsIds : db[id].exists /\ db[id].status = "confirmed"

\* C16: once a stored consultation is cancelled, no step of a status update
\* changes its status.
C16_CancelledIsTerminal ==
    [][\A r \in Slots :
          (/\ req[r].op = "status" /\ Steps(r)
           /\ db[req[r].id].exists /\ db[req[r].id].status = "cancelled"
           /\ db'[req[r].id].exists)
          => db'[req[r].id].status = "cancelled"]_vars

\* the stored consultations and those among them that are pending
Stored == {id \in DOMAIN db : db[id].exists}

StoredPending == {id \in Stored : db[id].status = "pending"}

\* out lists each id of ids once and no other, newer documents first
ListsNewestFirst(out, ids) ==
    /\ Len(out) = Cardinality(ids)
    /\ Range(out) = ids
    /\ \A i, j \in 1..Len(out) : i < j => db[out[i]].createdAt >= db[out[j]].createdAt

\* C17: the urgent listing (the controller's handler and the model's static)
\* returns exactly the stored consultations that are urgent and pending,
\* newest first.
C17_UrgentListing ==
    last.op \in {"urgentlist", "Consultation.getUrgentConsultations"}
    => ListsNewestFirst(last.data, {id \in StoredPending : db[id].isUrgent})

\* C18: the pending listing (the controller's handler and the model's static)
\* returns exactly the stored consultations whose status is pending, newest
\* first.
C18_PendingListing ==
    last.op \in {"pending", "Consultation.getPendingConsultations"}
    => ListsNewestFirst(last.data, StoredPending)

C18_Witness ==
    /\ last.op = "pending" /\ last.code = 200
    /\ Len(last.data) = 2
    /\ db[last.data[1]].createdAt > db[last.data[2]].createdAt
    /\ \E id \in Stored : db[id].status # "pending"

\* C20: the urgent figure of the statistics is the number of stored
\* consultations that are urgent and pending, and recent holds the
\* min(5, total) most recently created consultations, newest first.
C20_StatsUrgentAndRecent ==
    (last.op = "stats" /\ last.code = 200)
    => /\ last.stats[1].urgent = Cardinality({id \in StoredPending : db[id].isUrgent})
       /\ Len(last.data) = (IF Cardinality(Stored) < 5 THEN Cardinality(Stored) ELSE 5)
       /\ ListsNewestFirst(last.data, Range(last.data))
       /\ Range(last.data) \subseteq Stored
       /\ \A id \in Stored \ Range(last.data), i \in 1..Len(last.data) :
              db[id].createdAt <= db[last.data[i]].createdAt

\* term is a substring of text when the case of letters is ignored
SubstringNoCase(term, text) ==
    \E off \in 0..(Len(text) - Len(term)) :
        \A k \in 1..Len(term) : Lower(term[k]) = Lower(text[off + k])

\* the conjunction of the supplied filters, as the design states it
SatisfiesFilters(doc, query) ==
    /\ (query.status # <<>> /\ query.status[1] # "all") => doc.status = query.status[1]
    /\ (query.service # <<>> /\ query.service[1] # "all") => doc.service = query.service[1]
    /\ query.search # <<>>
           => \E path \in {"projectType", "description", "service", "location"} :
                  SubstringNoCase(query.search[1],
                                  IF path = "service" THEN ServiceText[doc.service]
                                  ELSE doc[path])

\* C19: getConsultations answers 200 with exactly the stored consultations
\* that satisfy every supplied filter: status and service by equality unless
\* "all", the search term as a substring (case ignored) of project type,
\* description, service or location.
C19_FiltersConjunction ==
    [][\A r \in Slots :
          (req[r].op = "list" /\ req[r].pc = "find" /\ Steps(r))
          => /\ last'.code = 200
             /\ Range(last'.data) = {id \in Stored : SatisfiesFilters(db[id], req[r].query)}]_vars

\* the stored consultations in one status
StoredIn(status) == {id \in Stored : db[id].status = status}

\* C21: the statistics give total = the number of stored consultations, the
\* pending, completed and cancelled figures = the numbers of consultations in
\* these statuses, and the three figures plus the number of consultations in
\* any other status add up to total; the empty collection gives zeros.
C21_StatsCountsSum ==
    (last.op = "stats" /\ last.code = 200)
    => LET stats == last.stats[1]
       IN  /\ stats.total = Cardinality(Stored)
           /\ stats.pending = Cardinality(StoredIn("pending"))
           /\ stats.completed = Cardinality(StoredIn("completed"))
           /\ stats.cancelled = Cardinality(StoredIn("cancelled"))
           /\ stats.pending + stats.completed + stats.cancelled
                + Cardinality({id \in Stored :
                                 db[id].status \notin {"pending", "completed", "cancelled"}})
              = stats.total

C21_Witness ==
    /\ last.op = "stats" /\ last.code = 200
    /\ last.stats[1].total = 3 /\ last.stats[1].pending = 1
    /\ last.stats[1].cancelled = 1 /\ last.stats[1].completed = 0
    /\ StoredIn("confirmed") # {}

\* C22: the answer of getConsultations reports as total the number of
\* records it returns, and the answer of getConsultationStats reports as
\* total at least the number of records in its recent list (up to the limit).
C22_OneSnapshot ==
    /\ (last.op = "list" /\ last.code = 200) => last.total = Len(last.data)
    /\ (last.op = "stats" /\ last.code = 200)
          => Len(last.data) = (IF last.stats[1].total < RecentLimit
                               THEN last.stats[1].total ELSE RecentLimit)

\* C24: the step of createConsultation that follows its mails, sent or
\* failed, answers 201 with the created consultation and leaves the store,
\* and so the inserted document, as it was.
C24_CreateSurvivesMailFailure ==
    [][\A r \in Slots :
          (req[r].op = "create" /\ req[r].pc = "mail" /\ Steps(r))
          => /\ db' = db
             /\ req'[r] = IdleReq
             /\ last'.code = 201
             /\ last'.data = <<req[r].id>>
             /\ last'.actor = req[r].actor]_vars

C24_Witness ==
    /\ last.op = "create" /\ last.mailed = "failed" /\ last.code = 201
    /\ last.data = <<1>> /\ db[1].exists /\ db[1].user = last.actor

\* C26: a PUT or DELETE of a non-admin owner changes nothing when the stored
\* status is not pending at its write.
C26_NoWriteOnProcessed ==
    [][\A r \in Slots :
          (/\ req[r].op \in {"put", "delete"} /\ req[r].pc = "write" /\ Steps(r)
           /\ req[r].actor \notin Admins
           /\ db[req[r].id].exists /\ db[req[r].id].status # "pending")
          => db' = db]_vars

\* the statuses of a history, after the status a consultation is created with
StatusPath(history) == <<"pending">> \o [i \in 1..Len(history) |-> history[i].status]

\* C28: for a consultation changed through updateStatus only, pending
\* followed by the statuses of its history is a path of the transition
\* table, its status is the last status of that path, and its history holds
\* at most 3 entries.
C28_HistoryIsLegalPath ==
    \A id \in ConsIds :
        db[id].exists
        => LET path == StatusPath(db[id].statusHistory)
           IN  /\ \A i \in 1..(Len(path) - 1) : <<path[i], path[i + 1]>> \in TransitionTable
               /\ db[id].status = Last(path)
               /\ Len(db[id].statusHistory) <= 3

\* C29: a PUT or DELETE of an administrator that found the consultation goes
\* on to its write, whatever the status and whoever the owner.
C29_AdminOverride ==
    [][\A r \in Slots :
          (/\ req[r].op \in {"put", "delete"} /\ AfterLoad(r, req[r].op)
           /\ req[r].actor \in Admins)
          => req'[r].pc = "write"]_vars

\* the stored users whose role is admin
StoredAdmins == {id \in UserIds : users[id].exists /\ users[id].role = "admin"}

\* C23: no step leaves the collection without an administrator when it had
\* one before the step.
C23_LastAdminKept ==
    [][StoredAdmins # {} => StoredAdmins' # {}]_vars

\* blocked with no expiry, or with an expiry after now
CurrentlyBlocked(user, now) ==
    user.isBlocked /\ (user.blockExpiresAt = 0 \/ user.blockExpiresAt > now)

\* what blocking and unblocking write
BlockFields(user) ==
    <<user.isBlocked, user.blockExpiresAt, user.blockReason, user.blockHistory>>

\* C25: a step of blockUser changes the block fields of its target only if
\* a reason was given and the target exists, is not an administrator and is
\* not currently blocked; a step of unblockUser changes them only if the
\* target is currently blocked; in every other case isBlocked,
\* blockExpiresAt, blockReason and blockHistory stay as they were.
C25_BlockPreconditions ==
    [][\A r \in Slots :
          (/\ req[r].op \in {"block", "unblock"} /\ Steps(r)
           /\ BlockFields(users'[req[r].target]) # BlockFields(users[req[r].target]))
          => LET user == users[req[r].target]
             IN  IF req[r].op = "block"
                 THEN /\ req[r].reason # ""
                      /\ user.exists /\ user.role # "admin"
                      /\ ~CurrentlyBlocked(user, nreq)
                 ELSE CurrentlyBlocked(user, nreq)]_vars

\* C27: login answers "Account is blocked" exactly when the user it loaded
\* is currently blocked.
C27_LoginRefusedIffBlocked ==
    [][\A r \in Slots :
          (req[r].op = "login" /\ req[r].pc = "loaded" /\ Steps(r) /\ req[r].doc.exists)
          => (last'.error = <<"Account is blocked">> /\ req'[r] = IdleReq)
             <=> CurrentlyBlocked(req[r].doc, nreq)]_vars

\* C30: a reset token is accepted at most once: no two resetPassword requests
\* that presented the same token have both saved their new password; and a
\* resetPassword that finds no user holding the token unexpired is answered
\* "Invalid or expired token" and leaves every user, the password included,
\* as it was.
C30_TokenAcceptedOnce ==
    /\ [](\A r1, r2 \in Slots :
            (/\ r1 # r2
             /\ req[r1].op = "reset" /\ req[r2].op = "reset"
             /\ req[r1].token = req[r2].token)
            => ~(req[r1].pc = "refresh" /\ req[r2].pc = "refresh"))
    /\ [][\A r \in Slots :
             (/\ req[r].op = "reset" /\ Steps(r)
              /\ req[r].pc = "loaded" /\ ~req[r].doc.exists)
             => /\ last'.error = <<"Invalid or expired token">>
                /\ users' = users]_vars

====
